---- MODULE Spec2Model ----
(***************************************************************************)
(* Model of oeis_A300793.py: the proven triangular recursion               *)
(* (get_next_row_b, get_a_until), the conjectured three-term recurrence    *)
(* (get_unproven_a_until) and the command-line driver that compares them.  *)
(*                                                                         *)
(* Python integers are unbounded.  An integer is modelled as a sequence of *)
(* limbs, least significant first, of value                                *)
(*      limbs[1] + limbs[2]*Base + limbs[3]*Base^2 + ...                   *)
(* in canonical form: every limb but the last is in 0..Base-1, the last    *)
(* (which carries the sign) is in -Base..Base-1, and a number of more than *)
(* one limb never ends in 0 or -1.  Each integer has exactly one canonical *)
(* form, so equality of Python integers is equality of limb sequences.     *)
(* FromInt converts from a machine integer: 75 is <<75>>,                  *)
(* 63405 is <<405, 63>>, -13 is <<-13>>, -5355 is <<645, -6>>.             *)
(***************************************************************************)
EXTENDS Integers, Sequences

VARIABLES pc, num, n, b, new_row, a, a_unproven, i, out, err

vars == <<pc, num, n, b, new_row, a, a_unproven, i, out, err>>

\* Bounds of the model: num ranges over -MaxNeg..MaxNum; the driver alone is
\* also run on any two result lists of at most MaxLen terms.
MaxNum == 50
MaxNeg == 2
MaxLen == 3

----------------------------------------------------------------------------
\* Loops.  A Python loop over range(lo, hi + 1) is modelled by an operator
\* that gives the state after the passes lo, lo + 1, ..., hi, run in this
\* order from the state st.  The range is split in halves only to keep the
\* evaluation shallow: the passes still run left to right, each on the state
\* the one before it left.  (The test first = first, which is always true,
\* makes the evaluation finish the first half before it starts the second.)

----------------------------------------------------------------------------
\* Arbitrary-precision integer arithmetic (Python int).

Base == 1000

\* The limbs of a carry left over above the last limb.
RECURSIVE CarryOut(_)
CarryOut(c) ==
    IF c >= -Base /\ c < Base THEN <<c>>
    ELSE <<c % Base>> \o CarryOut(c \div Base)

\* One limb of carry propagation (floor division): limb k of limbs, with the
\* carry st.c coming in.
CarryStep(limbs, st, k) ==
    LET t == limbs[k] + st.c
    IN  [out |-> Append(st.out, t % Base), c |-> t \div Base]

RECURSIVE CarryLoop(_, _, _, _)
CarryLoop(limbs, st, lo, hi) ==
    IF lo > hi THEN st
    ELSE IF lo = hi THEN CarryStep(limbs, st, lo)
    ELSE LET mid == (lo + hi) \div 2
             first == CarryLoop(limbs, st, lo, mid)
         IN  IF first = first
             THEN CarryLoop(limbs, first, mid + 1, hi)
             ELSE st

\* Carry propagation over any sequence of limbs.
Carry(limbs) ==
    LET end == CarryLoop(limbs, [out |-> <<>>, c |-> 0], 1, Len(limbs))
    IN  end.out \o CarryOut(end.c)

\* Drops the redundant last limbs: 0s above a non-negative number, and a -1
\* above limbs Base-1, which folds into the limb below them.
Trim(x) ==
    LET len == Len(x)
        top == x[len]
        fill == IF top = 0 THEN 0 ELSE Base - 1
        Kept == {k \in 1..(len - 1) : x[k] # fill}
        last == CHOOSE k \in Kept : \A m \in Kept : m <= k
    IN  IF len <= 1 \/ (top # 0 /\ top # -1) THEN x
        ELSE IF Kept = {} THEN <<top>>
        ELSE IF top = 0 THEN SubSeq(x, 1, last)
        ELSE SubSeq(x, 1, last - 1) \o <<x[last] - Base>>

\* The canonical form of any sequence of limbs.
Norm(limbs) == Trim(Carry(limbs))

FromInt(v) == Norm(<<v>>)

Limb(x, k) == IF k <= Len(x) THEN x[k] ELSE 0

MaxOf(p, q) == IF p >= q THEN p ELSE q

\* x + y
Add(x, y) ==
    Norm([k \in 1..MaxOf(Len(x), Len(y)) |-> Limb(x, k) + Limb(y, k)])

\* x - y
Sub(x, y) ==
    Norm([k \in 1..MaxOf(Len(x), Len(y)) |-> Limb(x, k) - Limb(y, k)])

\* x * m, for a machine integer m
Mul(x, m) == Norm([k \in 1..Len(x) |-> x[k] * m])

\* sum(row): Python's left fold from 0
RECURSIVE SumLoop(_, _, _, _)
SumLoop(row, acc, lo, hi) ==
    IF lo > hi THEN acc
    ELSE IF lo = hi THEN Add(acc, row[lo])
    ELSE LET mid == (lo + hi) \div 2
             first == SumLoop(row, acc, lo, mid)
         IN  IF first = first
             THEN SumLoop(row, first, mid + 1, hi)
             ELSE acc

sum(row) == SumLoop(row, FromInt(0), 1, Len(row))

----------------------------------------------------------------------------
\* get_next_row_b(current_row): the next row of b.  Python index j is
\* position j + 1 of the sequence.

\* RowEntry with the second factor's constant term lost: 2*j - 3*n
RowEntry_NoMinusOne(current_row, len, j) ==
    Add(Mul(current_row[j + 1], 2*j - len),
        Mul(current_row[j], 2*j - 3*len))

RowEntry(current_row, len, j) ==
    Add(Mul(current_row[j + 1], 2*j - len),
        Mul(current_row[j], 2*j - 3*len - 1))

\* get_next_row_b without its last append (line 30)
get_next_row_b_NoBoundary(current_row) ==
    LET len == Len(current_row)
    IN  <<Mul(Mul(current_row[1], -1), len)>>
        \o [j \in 1..(len - 1) |-> RowEntry(current_row, len, j)]

\* get_next_row_b with the boundary factor 2*n - 3*n + 1
get_next_row_b_PlusOne(current_row) ==
    LET len == Len(current_row)
    IN  <<Mul(Mul(current_row[1], -1), len)>>
        \o [j \in 1..(len - 1) |-> RowEntry(current_row, len, j)]
        \o <<Mul(current_row[len], 2*len - 3*len + 1)>>

get_next_row_b(current_row) ==
    LET len == Len(current_row)
    IN  <<Mul(Mul(current_row[1], -1), len)>>
        \o [j \in 1..(len - 1) |-> RowEntry(current_row, len, j)]
        \o <<Mul(current_row[len], 2*len - 3*len - 1)>>

----------------------------------------------------------------------------
\* get_a_until(num)

\* (-1)**k
sign(k) == (-1)^k

\* sign * sum(b) at loop index k
a_term(row, k) == Mul(sum(row), sign(k))

a_loop_init == [a |-> <<>>, b |-> <<FromInt(-1)>>]

\* One pass of the loop body at loop index k
a_loop_body(st, k) ==
    [a |-> Append(st.a, a_term(st.b, k)), b |-> get_next_row_b(st.b)]

\* The passes lo..hi of the loop of line 47
RECURSIVE a_loop(_, _, _)
a_loop(st, lo, hi) ==
    IF lo > hi THEN st
    ELSE IF lo = hi THEN a_loop_body(st, lo)
    ELSE LET mid == (lo + hi) \div 2
             first == a_loop(st, lo, mid)
         IN  IF first = first
             THEN a_loop(first, mid + 1, hi)
             ELSE st

\* get_a_until with the sign taken from num instead of the loop index
RECURSIVE a_loop_SignOfNum(_, _, _, _)
a_loop_SignOfNum(st, lo, hi, count) ==
    IF lo > hi THEN st
    ELSE IF lo = hi THEN a_loop_body(st, count)
    ELSE LET mid == (lo + hi) \div 2
             first == a_loop_SignOfNum(st, lo, mid, count)
         IN  IF first = first
             THEN a_loop_SignOfNum(first, mid + 1, hi, count)
             ELSE st

get_a_until_SignOfNum(count) ==
    a_loop_SignOfNum(a_loop_init, 1, count, count).a

get_a_until(count) == a_loop(a_loop_init, 1, count).a

----------------------------------------------------------------------------
\* get_unproven_a_until(num).  Python index k of the list is position k + 1.

\* unproven_term with the coefficients at the 1-based term index k + 1,
\* the index shift of lines 75-76 forgotten
unproven_term_NoShift(u, k) ==
    Add(Sub(Mul(u[k - 3 + 1], 4 * k^2 * (k - 1)),
            Mul(u[k - 2 + 1], 2 * (3*k + 1) * k)),
        Mul(u[k - 1 + 1], (4*k + 3)))

\* unproven_term with the middle term added instead of subtracted
unproven_term_Plus(u, k) ==
    Add(Add(Mul(u[k - 3 + 1], 4 * (k - 1)^2 * (k - 2)),
            Mul(u[k - 2 + 1], 2 * (3*k - 2) * (k - 1))),
        Mul(u[k - 1 + 1], (4*k - 1)))

unproven_term(u, k) ==
    Add(Sub(Mul(u[k - 3 + 1], 4 * (k - 1)^2 * (k - 2)),
            Mul(u[k - 2 + 1], 2 * (3*k - 2) * (k - 1))),
        Mul(u[k - 1 + 1], (4*k - 1)))

unproven_loop_body(u, k) == Append(u, unproven_term(u, k))

\* The passes lo..hi of the loop of line 74
RECURSIVE unproven_loop(_, _, _)
unproven_loop(u, lo, hi) ==
    IF lo > hi THEN u
    ELSE IF lo = hi THEN unproven_loop_body(u, lo)
    ELSE LET mid == (lo + hi) \div 2
             first == unproven_loop(u, lo, mid)
         IN  IF first = first
             THEN unproven_loop(first, mid + 1, hi)
             ELSE u

\* get_unproven_a_until without the branch for num == 2
get_unproven_a_until_NoTwo(count) ==
    IF count <= 0 THEN <<>>
    ELSE IF count = 1 THEN <<FromInt(1)>>
    ELSE unproven_loop(<<FromInt(1), FromInt(3), FromInt(13)>>, 3, count - 1)

\* get_unproven_a_until with the first test num == 0
get_unproven_a_until_EqZero(count) ==
    IF count = 0 THEN <<>>
    ELSE IF count = 1 THEN <<FromInt(1)>>
    ELSE IF count = 2 THEN <<FromInt(1), FromInt(3)>>
    ELSE unproven_loop(<<FromInt(1), FromInt(3), FromInt(13)>>, 3, count - 1)

get_unproven_a_until(count) ==
    IF count <= 0 THEN <<>>
    ELSE IF count = 1 THEN <<FromInt(1)>>
    ELSE IF count = 2 THEN <<FromInt(1), FromInt(3)>>
    ELSE unproven_loop(<<FromInt(1), FromInt(3), FromInt(13)>>, 3, count - 1)

----------------------------------------------------------------------------
\* The driver (__main__), with get_a_until run one loop pass at a time.
\*   pc: "main" (line 91), "a_loop" (line 47), "a_assign" (line 50, the call
\*   returned, b not yet assigned), "call_unproven" (line 92), "assert_len"
\*   (line 93), "report" (line 95), "done", "failed" (an assert raised).
\*   out: the lines printed, each as <<index, value>>.

Init ==
    /\ pc = "main"
    /\ num \in (-MaxNeg)..MaxNum
    /\ n = 0
    /\ b = <<>>
    /\ new_row = <<>>
    /\ a = <<>>
    /\ a_unproven = <<>>
    /\ i = 0
    /\ out = <<>>
    /\ err = "none"

\* line 91, entering get_a_until: lines 45-47
CallGetA ==
    /\ pc = "main"
    /\ pc' = "a_loop"
    /\ b' = a_loop_init.b
    /\ a' = a_loop_init.a
    /\ n' = 1
    /\ UNCHANGED <<num, new_row, a_unproven, i, out, err>>

\* lines 48-50 up to the return of get_next_row_b
ALoopCall ==
    /\ pc = "a_loop"
    /\ n <= num
    /\ a' = Append(a, a_term(b, n))
    /\ new_row' = get_next_row_b(b)
    /\ pc' = "a_assign"
    /\ UNCHANGED <<num, n, b, a_unproven, i, out, err>>

\* line 50, the assignment, and the loop's step to the next n
ALoopAssign ==
    /\ pc = "a_assign"
    /\ b' = new_row
    /\ new_row' = <<>>
    /\ n' = n + 1
    /\ pc' = "a_loop"
    /\ UNCHANGED <<num, a, a_unproven, i, out, err>>

\* line 51
ALoopExit ==
    /\ pc = "a_loop"
    /\ n > num
    /\ pc' = "call_unproven"
    /\ UNCHANGED <<num, n, b, new_row, a, a_unproven, i, out, err>>

\* line 92
CallUnproven ==
    /\ pc = "call_unproven"
    /\ a_unproven' = get_unproven_a_until(num)
    /\ pc' = "assert_len"
    /\ UNCHANGED <<num, n, b, new_row, a, i, out, err>>

\* line 93
AssertLen ==
    /\ pc = "assert_len"
    /\ IF Len(a) = Len(a_unproven)
       THEN pc' = "report" /\ err' = err
       ELSE pc' = "failed" /\ err' = "AssertionError"
    /\ UNCHANGED <<num, n, b, new_row, a, a_unproven, i, out>>

\* ReportIter without the assert of line 97
ReportIter_NoAssert ==
    /\ pc = "report"
    /\ i < Len(a)
    /\ out' = Append(out, <<i + 1, a[i + 1]>>)
    /\ i' = i + 1
    /\ UNCHANGED <<pc, err, num, n, b, new_row, a, a_unproven>>

\* ReportIter with lines 96 and 97 swapped: compare, then print
ReportIter_AssertFirst ==
    /\ pc = "report"
    /\ i < Len(a)
    /\ IF a[i + 1] = a_unproven[i + 1]
       THEN /\ out' = Append(out, <<i + 1, a[i + 1]>>)
            /\ pc' = pc /\ err' = err /\ i' = i + 1
       ELSE /\ out' = out
            /\ pc' = "failed" /\ err' = "AssertionError" /\ i' = i
    /\ UNCHANGED <<num, n, b, new_row, a, a_unproven>>

\* lines 95-97, one pass: print, then compare
ReportIter ==
    /\ pc = "report"
    /\ i < Len(a)
    /\ out' = Append(out, <<i + 1, a[i + 1]>>)
    /\ IF a[i + 1] = a_unproven[i + 1]
       THEN pc' = pc /\ err' = err /\ i' = i + 1
       ELSE pc' = "failed" /\ err' = "AssertionError" /\ i' = i
    /\ UNCHANGED <<num, n, b, new_row, a, a_unproven>>

\* line 95, the range is exhausted
ReportExit ==
    /\ pc = "report"
    /\ i >= Len(a)
    /\ pc' = "done"
    /\ UNCHANGED <<num, n, b, new_row, a, a_unproven, i, out, err>>

Next ==
    \/ CallGetA
    \/ ALoopCall
    \/ ALoopAssign
    \/ ALoopExit
    \/ CallUnproven
    \/ AssertLen
    \/ ReportIter
    \/ ReportExit

Spec == Init /\ [][Next]_vars

----------------------------------------------------------------------------
\* The driver's lines 93-97 on any two result lists.

Terms == {FromInt(1), FromInt(3), FromInt(13)}

Lists == UNION {[1..len -> Terms] : len \in 0..MaxLen}

InitDriver ==
    /\ pc = "assert_len"
    /\ num = 0
    /\ n = 0
    /\ b = <<>>
    /\ new_row = <<>>
    /\ a \in Lists
    /\ a_unproven \in Lists
    /\ i = 0
    /\ out = <<>>
    /\ err = "none"

NextDriver ==
    \/ AssertLen
    \/ ReportIter
    \/ ReportExit

SpecDriver == InitDriver /\ [][NextDriver]_vars

----------------------------------------------------------------------------
\* Properties.

\* get_a_until has returned / both engines have returned
AReturned == pc \in {"call_unproven", "assert_len", "report", "done", "failed"}
BothReturned == pc \in {"assert_len", "report", "done", "failed"}

\* C1: for every num in 1..MaxNum the two engines return lists of the same
\* length that are equal at every position, and the driver never fails.
C1_EnginesAgree ==
    (num >= 1 /\ BothReturned) =>
        /\ Len(a) = Len(a_unproven)
        /\ \A k \in 1..num : a[k] = a_unproven[k]
        /\ pc # "failed"
        /\ err = "none"

C1_Witness ==
    /\ pc = "done"
    /\ num = MaxNum
    /\ Len(a) = MaxNum
    /\ Len(out) = MaxNum

\* The first five terms as the code computes them, and as the spec lists them
FirstFive == <<FromInt(1), FromInt(3), FromInt(13), FromInt(75), FromInt(561)>>
FirstFiveListed ==
    <<FromInt(1), FromInt(3), FromInt(13), FromInt(73), FromInt(501)>>

\* C2 (as stated): get_a_until(5) and get_unproven_a_until(5) both equal
\* [1, 3, 13, 73, 501].
C2_ListedValues ==
    (num = 5 /\ BothReturned) =>
        (a = FirstFiveListed /\ a_unproven = FirstFiveListed)

\* C2 (amended): get_a_until(5) and get_unproven_a_until(5) both equal
\* [1, 3, 13, 75, 561].
C2_FirstFive ==
    (num = 5 /\ BothReturned) => (a = FirstFive /\ a_unproven = FirstFive)

C2_Witness == pc = "done" /\ num = 5 /\ Len(a) = 5 /\ Len(a_unproven) = 5

\* C3: for every num >= 0 both engines return exactly num terms (none for
\* num = 0; 1, 2 and num terms from the conjectured engine's branches).
C3_Length ==
    /\ (num >= 0 /\ AReturned) => Len(a) = num
    /\ (num >= 0 /\ BothReturned) => Len(a_unproven) = num

C3_Witness ==
    /\ pc = "assert_len"
    /\ num = 0
    /\ a = <<>>
    /\ a_unproven = <<>>

\* C4: for every num >= 1 get_a_until(num), which is the list the run
\* returned, is a prefix of get_a_until(num + 1).
C4_Prefix ==
    (num >= 1 /\ pc = "call_unproven") =>
        LET shorter == get_a_until(num)
            longer == get_a_until(num + 1)
        IN  /\ a = shorter
            /\ Len(longer) = num + 1
            /\ \A k \in 1..num : longer[k] = shorter[k]

C4_Witness == pc = "call_unproven" /\ num = MaxNum /\ Len(a) = MaxNum

\* C5: get_unproven_a_until(1) = [1], (2) = [1, 3], (3) = [1, 3, 13]; for
\* num >= 4 the list starts [1, 3, 13] and every Python position k in
\* 3..num-1 holds
\*   4*(k-1)^2*(k-2)*a[k-3] - 2*(3k-2)*(k-1)*a[k-2] + (4k-1)*a[k-1].
C5_Unproven ==
    (num >= 1 /\ pc = "assert_len") =>
        /\ num = 1 => a_unproven = <<FromInt(1)>>
        /\ num = 2 => a_unproven = <<FromInt(1), FromInt(3)>>
        /\ num >= 3 =>
              SubSeq(a_unproven, 1, 3) = <<FromInt(1), FromInt(3), FromInt(13)>>
        /\ num >= 3 => Len(a_unproven) = num
        /\ \A k \in 3..(num - 1) :
              a_unproven[k + 1] =
                  Sub(Add(Mul(a_unproven[k - 2], 4 * (k - 1) * (k - 1) * (k - 2)),
                          Mul(a_unproven[k], 4*k - 1)),
                      Mul(a_unproven[k - 1], 2 * (3*k - 2) * (k - 1)))

C5_Witness == pc = "assert_len" /\ num = MaxNum /\ Len(a_unproven) = MaxNum

\* C6 (as stated): for a negative num the engines reject the call with an
\* InputError instead of returning.
C6_InputError == (num < 0 /\ AReturned) => err = "InputError"

\* C6 (amended): for a negative num both engines return the empty list and
\* nothing is raised: the driver prints nothing and ends normally.
C6_NegativeIsEmpty ==
    num < 0 =>
        /\ AReturned => a = <<>>
        /\ BothReturned => a_unproven = <<>>
        /\ err = "none"
        /\ pc # "failed"
        /\ out = <<>>

C6_Witness == num < 0 /\ pc = "done" /\ a = <<>> /\ a_unproven = <<>>

\* C7: on any two result lists the driver ends failed, with an assertion
\* error, when they differ in length or at some position, and ends done,
\* with no error, exactly when they are equal; it always reaches one of the
\* two; and lists of different lengths fail at the length check, before any
\* term is compared.
C7_Verdict ==
    /\ pc = "failed" => (err = "AssertionError" /\ a # a_unproven)
    /\ pc = "done" =>
          /\ err = "none"
          /\ Len(a) = Len(a_unproven)
          /\ \A k \in 1..Len(a) : a[k] = a_unproven[k]
    /\ pc \notin {"done", "failed"} => (err = "none" /\ ENABLED NextDriver)
    /\ Len(a) # Len(a_unproven) =>
          /\ pc \in {"assert_len", "failed"}
          /\ i = 0
          /\ out = <<>>

C7_Witness ==
    /\ pc = "failed"
    /\ Len(a) = MaxLen
    /\ Len(a_unproven) = MaxLen
    /\ i = MaxLen - 1
    /\ a[MaxLen] # a_unproven[MaxLen]

\* C10: each term is printed before it is compared.  When two lists of equal
\* length first disagree at 1-based position k, the driver fails with exactly
\* the lines a(1)..a(k) printed, and prints nothing after; when the lengths
\* differ it fails with nothing printed.
C10_PrintBeforeCompare ==
    /\ (pc = "failed" /\ Len(a) = Len(a_unproven)) =>
          LET k == i + 1
          IN  /\ k <= Len(a)
              /\ \A m \in 1..(k - 1) : a[m] = a_unproven[m]
              /\ a[k] # a_unproven[k]
              /\ Len(out) = k
              /\ \A m \in 1..k : out[m] = <<m, a[m]>>
    /\ (pc = "failed" /\ Len(a) # Len(a_unproven)) => out = <<>>
    /\ pc = "failed" => ~ ENABLED NextDriver
    /\ pc = "report" =>
          /\ Len(out) = i
          /\ \A m \in 1..i : out[m] = <<m, a[m]>>

C10_Witness ==
    /\ pc = "failed"
    /\ Len(a) = MaxLen
    /\ Len(a_unproven) = MaxLen
    /\ i = 1
    /\ Len(out) = 2

\* C8: get_next_row_b turns a row of length n >= 1 into one of length n + 1
\* with next[0] = -current[0]*n, next[j] = current[j]*(2j-n) +
\* current[j-1]*(2j-3n-1) for j in 1..n-1 and next[n] = current[n-1]*(2n-3n-1);
\* and in get_a_until the row at the start of loop pass n has length n,
\* starting from [-1] at n = 1.
C8_Rows ==
    /\ pc \in {"a_loop", "a_assign"} => Len(b) = n
    /\ (pc = "a_loop" /\ n = 1) => b = <<FromInt(-1)>>
    /\ pc = "a_assign" =>
          /\ Len(new_row) = n + 1
          /\ new_row[1] = Mul(b[1], -n)
          /\ \A j \in 1..(n - 1) :
                new_row[j + 1] = Add(Mul(b[j + 1], 2*j - n),
                                     Mul(b[j], 2*j - 3*n - 1))
          /\ new_row[n + 1] = Mul(b[n], 2*n - 3*n - 1)

C8_Witness ==
    /\ pc = "a_assign"
    /\ n = MaxNum
    /\ Len(b) = MaxNum
    /\ Len(new_row) = MaxNum + 1

\* C9: get_next_row_b([-1]) = [1, 2].
C9_FirstRow ==
    (pc = "a_assign" /\ b = <<FromInt(-1)>>) =>
        new_row = <<FromInt(1), FromInt(2)>>

C9_Witness == pc = "a_assign" /\ n = 1 /\ b = <<FromInt(-1)>> /\ Len(new_row) = 2

====
